---- MODULE Spec2Model ----
(***************************************************************************)
(* The gif service of src/src/main.rs: four warp routes behind a GET       *)
(* filter and a rejection handler, a table gif_gifs reached through sqlx,  *)
(* and ids made by a rustflake Snowflake built anew in every gen_flake     *)
(* call.                                                                   *)
(*                                                                         *)
(* A path is the sequence of its segments, a segment the sequence of its   *)
(* characters.  The clock is the wall clock in milliseconds counted from   *)
(* the epoch that gen_flake passes to Snowflake::new (main.rs:129); the    *)
(* service runs after that epoch, so the clock reads at least 1.  Time is  *)
(* followed in steps of a second, the unit in which sleepy waits.         *)
(*                                                                         *)
(* Every request is a task of the tokio runtime.  A handler runs up to its *)
(* first await in the step that accepts the request; a handler that awaits *)
(* the timer or the database stays in tasks, and the timer, the database   *)
(* and the resumed handler each take a step of their own, so that requests *)
(* in flight together interleave.  The service starts on whatever rows    *)
(* gif_gifs holds from earlier runs.                                      *)
(***************************************************************************)
EXTENDS Integers, Sequences, FiniteSets, TLC

VARIABLES clock, table, issued, acked, tasks, last, served

vars == <<clock, table, issued, acked, tasks, last, served>>

\* ------------------------------------------------------------------ bounds
\* seconds followed, requests sent
MaxSeconds == 1
MaxRequests == 2

\* --------------------------------------------------------------- segments
SegZero == <<"0">>
SegOne == <<"1">>
SegBig == <<"2", "5", "6">>
SegWord == <<"a", "b">>
SegRe == <<"r", "e">>
SegApi == <<"a", "p", "i">>
SegGif == <<"g", "i", "f">>
SegCats == <<"c", "a", "t", "s">>
SegDogs == <<"d", "o", "g", "s">>
SegText == <<"a", "%", "2", "0", "b">>

\* the request paths the clients send
Paths ==
  { <<>>, <<SegZero>>, <<SegOne>>, <<SegBig>>, <<SegZero, SegWord>>,
    <<SegRe, SegText>>, <<SegRe, SegWord, SegWord>>,
    <<SegApi, SegGif, SegCats>>, <<SegApi, SegGif, SegDogs>>,
    <<SegApi, SegGif, SegCats, SegWord>> }

Methods == {"GET", "POST"}
\* http://x
Urls == {<<"h", "t", "t", "p", ":", "/", "/", "x">>}
NoQuery == [present |-> FALSE]
Queries == {NoQuery} \cup {[present |-> TRUE, url |-> u] : u \in Urls}

\* the requests the clients send: the url parameter goes to the /api paths
Requests ==
  {r \in [method : Methods, path : Paths, query : Queries] :
     r.query.present => (r.path # <<>> /\ r.path[1] = SegApi)}

\* ------------------------------------------------------------ str::parse
DigitValue ==
  [c \in {"0", "1", "2", "3", "4", "5", "6", "7", "8", "9"} |->
     CASE c = "0" -> 0 [] c = "1" -> 1 [] c = "2" -> 2 [] c = "3" -> 3
       [] c = "4" -> 4 [] c = "5" -> 5 [] c = "6" -> 6 [] c = "7" -> 7
       [] c = "8" -> 8 [] c = "9" -> 9]

RECURSIVE Decimal(_)
Decimal(s) ==
  IF s = <<>> THEN 0 ELSE 10 * Decimal(SubSeq(s, 1, Len(s) - 1)) + DigitValue[s[Len(s)]]

\* the digits u8::from_str reads: a leading "+" is skipped
Digits(s) == IF Len(s) > 1 /\ s[1] = "+" THEN Tail(s) ELSE s

\* u8::from_str succeeds
IsU8(s) ==
  /\ Digits(s) # <<>>
  /\ \A i \in 1..Len(Digits(s)) : Digits(s)[i] \in DOMAIN DigitValue
  /\ Decimal(Digits(s)) <= 255

ParseU8(s) == Decimal(Digits(s))

\* str::replace("%20", " ")
RECURSIVE Replace(_)
Replace(s) ==
  IF s = <<>> THEN <<>>
  ELSE IF Len(s) >= 3 /\ SubSeq(s, 1, 3) = <<"%", "2", "0">>
       THEN <<" ">> \o Replace(SubSeq(s, 4, Len(s)))
       ELSE <<s[1]>> \o Replace(Tail(s))

\* ------------------------------------------------------------- rejections
not_found == [reason |-> "NotFound"]
Known(cause) == [reason |-> "Other", causes |-> <<cause>>]
method_not_allowed == Known("MethodNotAllowed")
invalid_query == Known("InvalidQuery")

is_not_found(err) == err.reason = "NotFound"
find(err, cause) ==
  err.reason = "Other" /\ \E i \in 1..Len(err.causes) : err.causes[i] = cause

\* Rejection::combine
combine(a, b) ==
  IF a.reason = "Other" /\ b.reason = "Other"
  THEN [reason |-> "Other", causes |-> a.causes \o b.causes]
  ELSE IF a.reason = "Other" THEN a
  ELSE IF b.reason = "Other" THEN b
  ELSE not_found

\* ---------------------------------------------------------------- results
NoBody == [kind |-> "none"]

\* what a handler future resolves to
Ok(body, ran) == [tag |-> "Ok", body |-> body, ran |-> ran]
Err(rej, ran) == [tag |-> "Err", rej |-> rej, ran |-> ran]
Panic == [tag |-> "Panic"]

\* the i64 id kept as its bits 22..63 (high) and 0..21 (low)
NoId == [high |-> 0, low |-> 0]

\* a future suspended at an await: pc names what it waits for, prior holds the
\* rejections of the routes tried before it
Pending(pc, handler, ran, remaining, id) ==
  [tag |-> "Pending", pc |-> pc, handler |-> handler, ran |-> ran,
   remaining |-> remaining, id |-> id, prior |-> <<>>]

\* ---------------------------------------------------------------- handlers
\* sleepy up to delay_for(..).await
sleepy(seconds) == Pending("sleep", "sleepy", <<"sleepy">>, seconds, NoId)

\* sleepy after the delay
sleepy_reply(seconds) == Ok([kind |-> "waited", seconds |-> seconds], <<"sleepy">>)

stringy(string) == Ok([kind |-> "text", text |-> Replace(string)], <<"stringy">>)

WorkerId == 1
ProcessId == 1

\* Snowflake::new: sequence 0, last timestamp 0
Snowflake_new == [sequence |-> 0, last_timestamp |-> 0]

\* Snowflake::generate at clock reading now (milliseconds since the epoch):
\* (timestamp << 22) | (worker << 17) | (process << 12) | sequence
generate(s, now) ==
  LET sequence == IF now = s.last_timestamp THEN (s.sequence + 1) % 4096 ELSE 0
  IN [high |-> now, low |-> WorkerId * 131072 + ProcessId * 4096 + sequence]

gen_flake(now) == generate(Snowflake_new, now)

\* post_gifs up to .fetch_all(&pool).await: the id is made, the INSERT is sent
post_gifs(url, cat, now) ==
  Pending("insert", "post_gifs", <<"post_gifs", "gen_flake">>, 0, gen_flake(now))

\* the row of "INSERT INTO public.gif_gifs (id, url, category) VALUES ($1, $2, $3)"
InsertRow(id, url, cat) == [id |-> id, url |-> url, category |-> cat]

\* the table's primary key on id refuses a second row with the same id
DuplicateKey(tbl, id) == \E r \in tbl : r.id = id

\* the INSERT ... returning id, run by the database
Insert(tbl, row, dbOk) ==
  IF ~dbOk THEN [failure |-> "query_error", table |-> tbl, returned |-> <<>>]
  ELSE IF DuplicateKey(tbl, row.id)
  THEN [failure |-> "duplicate_key", table |-> tbl, returned |-> <<>>]
  ELSE [failure |-> "none", table |-> tbl \cup {row}, returned |-> <<[id |-> row.id]>>]

\* post_gifs after the await: unwrap, then the returned ids as JSON
post_gifs_reply(failure, returned) ==
  IF failure # "none" THEN Panic
  ELSE Ok([kind |-> "ids", ids |-> returned], <<"post_gifs", "gen_flake">>)

\* get_gifs up to .fetch_all(&pool).await
get_gifs(cat) == Pending("select", "get_gifs", <<"get_gifs">>, 0, NoId)

\* the query with its WHERE clause lost
SelectAnyCategory(tbl, cat) == tbl

\* the rows "WHERE category = $1 order by random() limit 1" may return
Select(tbl, cat) == {r \in tbl : r.category = cat}
FetchAll(tbl, cat) ==
  IF Select(tbl, cat) = {} THEN {<<>>} ELSE {<<r>> : r \in Select(tbl, cat)}

\* get_gifs after the await: unwrap, then not found or the first row as JSON
get_gifs_reply(failure, gifs) ==
  IF failure # "none" THEN Panic
  ELSE IF Len(gifs) = 0 THEN Err(not_found, <<"get_gifs">>)
  ELSE Ok([kind |-> "item", item |-> gifs[1]], <<"get_gifs">>)

\* ------------------------------------------------------------------ routes
\* warp::path::param::<u8>() with no path::end(): only the first segment is read
wait(req) ==
  IF Len(req.path) >= 1 /\ IsU8(req.path[1])
  THEN sleepy(ParseU8(req.path[1]))
  ELSE Err(not_found, <<>>)

\* warp::path!("re" / String)
stringy_route(req) ==
  IF Len(req.path) = 2 /\ req.path[1] = SegRe
  THEN stringy(req.path[2])
  ELSE Err(not_found, <<>>)

\* warp::path!("api" / "gif" / String)
IsGifPath(path) == Len(path) = 3 /\ path[1] = SegApi /\ path[2] = SegGif

add_gif(req, now) ==
  IF ~IsGifPath(req.path) THEN Err(not_found, <<>>)
  ELSE IF ~req.query.present THEN Err(invalid_query, <<>>)
  ELSE post_gifs(req.query.url, req.path[3], now)

random_gif(req) ==
  IF ~IsGifPath(req.path) THEN Err(not_found, <<>>)
  ELSE get_gifs(req.path[3])

\* a.or(b): b is tried when a rejects, and b's rejection is combined with a's
Or(a, b) ==
  IF a.tag # "Err" THEN a
  ELSE IF b.tag = "Err" THEN Err(combine(b.rej, a.rej), a.ran \o b.ran)
  ELSE IF b.tag = "Pending" THEN [b EXCEPT !.prior = b.prior \o <<a.rej>>]
  ELSE b

\* the rejection of a resumed future combined with those of the routes before it
RECURSIVE Settle(_, _)
Settle(rej, prior) ==
  IF prior = <<>> THEN rej ELSE Settle(combine(rej, prior[1]), Tail(prior))

\* the route chain with the warp::get() filter left out
routes_any_method(req, now) ==
  Or(Or(Or(wait(req), stringy_route(req)), add_gif(req, now)), random_gif(req))

\* the route chain up to the first await
routes(req, now) ==
  IF req.method # "GET" THEN Err(method_not_allowed, <<>>)
  ELSE Or(Or(Or(wait(req), stringy_route(req)), add_gif(req, now)), random_gif(req))

ErrorMessage(code, message) == [kind |-> "error", code |-> code, message |-> message]

\* the handler replying with the JSON alone, the status never set
handle_rejection_no_status(err) ==
  IF is_not_found(err)
  THEN [status |-> 200, body |-> ErrorMessage(404, "NOT_FOUND")]
  ELSE IF find(err, "MethodNotAllowed")
  THEN [status |-> 200, body |-> ErrorMessage(405, "METHOD_NOT_ALLOWED")]
  ELSE [status |-> 200, body |-> ErrorMessage(500, "UNHANDLED_REJECTION")]

handle_rejection(err) ==
  IF is_not_found(err)
  THEN [status |-> 404, body |-> ErrorMessage(404, "NOT_FOUND")]
  ELSE IF find(err, "MethodNotAllowed")
  THEN [status |-> 405, body |-> ErrorMessage(405, "METHOD_NOT_ALLOWED")]
  ELSE [status |-> 500, body |-> ErrorMessage(500, "UNHANDLED_REJECTION")]

\* routes.recover(handle_rejection), served: a panic leaves the request unanswered
Response(r) ==
  IF r.tag = "Ok" THEN [answered |-> TRUE, status |-> 200, body |-> r.body]
  ELSE IF r.tag = "Err"
  THEN [answered |-> TRUE, status |-> handle_rejection(r.rej).status,
        body |-> handle_rejection(r.rej).body]
  ELSE [answered |-> FALSE, status |-> 0, body |-> NoBody]

\* ------------------------------------------------------------ state machine
NoRequest ==
  [method |-> "NONE", path |-> <<>>, query |-> NoQuery, answered |-> FALSE,
   status |-> 0, body |-> NoBody, ran |-> <<>>, failure |-> "none",
   gained |-> {}, ids |-> <<>>, rows |-> 0, seen |-> {}]

\* rows an earlier run of the service stored: their ids were made before the
\* clock readings followed here
SeedRows ==
  { InsertRow(generate(Snowflake_new, 0), u, SegCats) : u \in Urls } \cup
  { InsertRow(generate([sequence |-> 1, last_timestamp |-> 0], 0), u, SegDogs) : u \in Urls }

\* the readings of the wall clock
ClockValues == {s * 1000 + 1 : s \in 0..MaxSeconds}

Init ==
  /\ clock \in ClockValues
  /\ table \in SUBSET SeedRows
  /\ issued = <<>>
  /\ acked = {}
  /\ tasks = {}
  /\ last = NoRequest
  /\ served = 0

\* a second passes: the timers of the sleeping tasks run down
SecondElapses ==
  /\ clock + 1000 \in ClockValues
  /\ clock' = clock + 1000
  /\ tasks' = {IF t.pc = "sleep" /\ t.remaining > 0
               THEN [t EXCEPT !.remaining = t.remaining - 1] ELSE t : t \in tasks}
  /\ UNCHANGED <<table, issued, acked, last, served>>

\* the wall clock is set back
ClockBack ==
  /\ \E t \in ClockValues : t < clock /\ clock' = t
  /\ UNCHANGED <<table, issued, acked, tasks, last, served>>

\* the record of a request that is through
Done(t, r, ids) ==
  [method |-> t.method, path |-> t.path, query |-> t.query,
   answered |-> Response(r).answered, status |-> Response(r).status,
   body |-> Response(r).body, ran |-> t.ran, failure |-> t.failure,
   gained |-> t.gained, ids |-> ids, rows |-> Len(t.gifs), seen |-> t.seen]

\* a request arrives and runs up to its first await
Accept(method, path, query) ==
  /\ served < MaxRequests
  /\ served' = served + 1
  /\ LET req == [method |-> method, path |-> path, query |-> query]
         r == routes(req, clock)
         t == [n |-> served + 1, method |-> method, path |-> path, query |-> query,
               pc |-> IF r.tag = "Pending" THEN r.pc ELSE "done",
               handler |-> IF r.tag = "Pending" THEN r.handler ELSE "none",
               ran |-> r.ran,
               remaining |-> IF r.tag = "Pending" THEN r.remaining ELSE 0,
               id |-> IF r.tag = "Pending" THEN r.id ELSE NoId,
               prior |-> IF r.tag = "Pending" THEN r.prior ELSE <<>>,
               failure |-> "none", gifs |-> <<>>, returned |-> <<>>, gained |-> {},
               seen |-> IF IsGifPath(path)
                        THEN {a \in acked : a.category = path[3]} ELSE {}]
     IN IF r.tag = "Pending"
        THEN /\ tasks' = tasks \cup {t}
             /\ issued' = IF r.pc = "insert"
                          THEN Append(issued, [id |-> r.id, ts |-> clock]) ELSE issued
             /\ UNCHANGED last
        ELSE /\ last' = Done(t, r, <<>>)
             /\ UNCHANGED <<tasks, issued>>
  /\ UNCHANGED <<clock, table, acked>>

\* the delay of a sleeping task is over and sleepy answers
TimerFires(t) ==
  /\ t.pc = "sleep" /\ t.remaining = 0
  /\ tasks' = tasks \ {t}
  /\ last' = Done(t, sleepy_reply(ParseU8(t.path[1])), <<>>)
  /\ UNCHANGED <<clock, table, issued, acked, served>>

\* the database runs the INSERT of a task, or fails it
ExecInsert(t, dbOk) ==
  /\ t.pc = "insert"
  /\ LET row == InsertRow(t.id, t.query.url, t.path[3])
         res == Insert(table, row, dbOk)
     IN /\ table' = res.table
        /\ tasks' = (tasks \ {t}) \cup
                      {[t EXCEPT !.pc = "reply", !.failure = res.failure,
                                 !.returned = res.returned,
                                 !.gained = res.table \ table]}
  /\ UNCHANGED <<clock, issued, acked, last, served>>

\* the database runs the SELECT of a task, or fails it
ExecSelect(t, dbOk) ==
  /\ t.pc = "select"
  /\ \E gifs \in FetchAll(table, t.path[3]) :
       tasks' = (tasks \ {t}) \cup
                  {IF dbOk THEN [t EXCEPT !.pc = "reply", !.gifs = gifs]
                   ELSE [t EXCEPT !.pc = "reply", !.failure = "query_error"]}
  /\ UNCHANGED <<clock, table, issued, acked, last, served>>

\* the handler of a task resumes with the query's result and the request ends
Reply(t) ==
  /\ t.pc = "reply"
  /\ LET h == IF t.handler = "post_gifs" THEN post_gifs_reply(t.failure, t.returned)
              ELSE get_gifs_reply(t.failure, t.gifs)
         r == IF h.tag = "Err" THEN Err(Settle(h.rej, t.prior), h.ran) ELSE h
     IN /\ last' = Done(t, r, IF t.handler = "post_gifs"
                              THEN <<[id |-> t.id, ts |-> t.id.high]>> ELSE <<>>)
        /\ acked' = IF r.tag = "Ok" /\ r.body.kind = "ids"
                    THEN acked \cup {[id |-> r.body.ids[1].id, url |-> t.query.url,
                                      category |-> t.path[3]]}
                    ELSE acked
  /\ tasks' = tasks \ {t}
  /\ UNCHANGED <<clock, table, issued, served>>

Request == \E r \in Requests : Accept(r.method, r.path, r.query)
Timer == \E t \in tasks : TimerFires(t)
Database == \E t \in tasks, dbOk \in BOOLEAN : ExecInsert(t, dbOk) \/ ExecSelect(t, dbOk)
Resume == \E t \in tasks : Reply(t)

Next == SecondElapses \/ ClockBack \/ Request \/ Timer \/ Database \/ Resume

Spec == Init /\ [][Next]_vars

\* ------------------------------------------------------------------ claims
\* the three path shapes of the routing table
MatchesShape(path) ==
  \/ Len(path) = 1 /\ IsU8(path[1])
  \/ Len(path) = 2 /\ path[1] = SegRe
  \/ Len(path) = 3 /\ path[1] = SegApi /\ path[2] = SegGif

\* the order of two ids as 64-bit integers
IdLess(a, b) == a.high < b.high \/ (a.high = b.high /\ a.low < b.low)

Count(seq, x) == Cardinality({i \in 1..Len(seq) : seq[i] = x})

NotFoundBody == [kind |-> "error", code |-> 404, message |-> "NOT_FOUND"]
NotAllowedBody == [kind |-> "error", code |-> 405, message |-> "METHOD_NOT_ALLOWED"]
UnhandledBody == [kind |-> "error", code |-> 500, message |-> "UNHANDLED_REJECTION"]

IsFetchRequest ==
  last.method = "GET" /\ MatchesShape(last.path) /\ Len(last.path) = 3 /\ ~last.query.present
IsInsertRequest ==
  last.method = "GET" /\ MatchesShape(last.path) /\ Len(last.path) = 3 /\ last.query.present

\* C1: the ids returned by the generation calls of the insert requests are
\* pairwise distinct, and a call that completes before another begins returns
\* the strictly smaller id.
C1_IdsDistinctAndIncreasing ==
  \A i, j \in 1..Len(issued) : i < j => IdLess(issued[i].id, issued[j].id)

\* C2: a GET of /api/gif/<category> without a url parameter, whose query ran
\* and found no row of that category, is answered 404 with the body
\* {code: 404, message: "NOT_FOUND"}.
C2_EmptyCategoryIs404 ==
  (IsFetchRequest /\ last.failure = "none" /\ last.rows = 0)
  => (last.answered /\ last.status = 404 /\ last.body = NotFoundBody)

\* C3: a GET of /api/gif/<category> whose query reaches the store runs the insert
\* handler exactly once and not the fetch handler when the url parameter is
\* present, and the table gains exactly the row of that category and url; it
\* runs the fetch handler and not the insert handler when the parameter is
\* absent, and the table gains nothing.
C3_UrlParameterAloneDecides ==
  /\ (IsInsertRequest /\ last.failure # "query_error")
       => /\ Count(last.ran, "post_gifs") = 1
          /\ Count(last.ran, "get_gifs") = 0
          /\ Cardinality(last.gained) = 1
          /\ \A r \in last.gained : r.url = last.query.url /\ r.category = last.path[3]
  /\ (IsFetchRequest /\ last.failure # "query_error")
       => /\ Count(last.ran, "get_gifs") = 1
          /\ Count(last.ran, "post_gifs") = 0
          /\ last.gained = {}

\* C4: a request whose storage query failed (a query error, or a duplicate
\* primary key on insert) is answered 500 with the body
\* {code: 500, message: "UNHANDLED_REJECTION"}.
C4_QueryFailureIs500 ==
  last.failure # "none"
  => (last.answered /\ last.status = 500 /\ last.body = UnhandledBody)

\* C5: a GET whose path has none of the three path shapes is answered 404
\* with the body {code: 404, message: "NOT_FOUND"} and runs no handler.
C5_UnmatchedPathIs404 ==
  (last.method = "GET" /\ ~MatchesShape(last.path))
  => (last.answered /\ last.status = 404 /\ last.body = NotFoundBody /\ last.ran = <<>>)

\* C6: a request with a method other than GET on a path of one of the three
\* shapes is answered 405 with the body {code: 405, message:
\* "METHOD_NOT_ALLOWED"}, and nothing ran: no handler, no generated id, no row.
C6_UnsupportedMethodIs405 ==
  (last.method \notin {"GET", "NONE"} /\ MatchesShape(last.path))
  => /\ last.answered /\ last.status = 405 /\ last.body = NotAllowedBody
     /\ last.ran = <<>> /\ last.ids = <<>> /\ last.gained = {}

C6_Witness ==
  /\ last.method = "POST" /\ last.path = <<SegApi, SegGif, SegCats>>
  /\ last.query.present /\ last.answered /\ last.status = 405

\* C7: the path decides before the method: a request with an unsupported
\* method whose path has none of the three shapes is answered 404 NOT_FOUND,
\* and 405 is answered only to an unsupported method on a path of one of the
\* shapes (for GET the first half is C5).
C7_PathBeforeMethod ==
  /\ (last.method \notin {"GET", "NONE"} /\ ~MatchesShape(last.path))
       => (last.answered /\ last.status = 404 /\ last.body = NotFoundBody)
  /\ last.status = 405 => (MatchesShape(last.path) /\ last.method # "GET")

\* C8: every error response carries a body {code, message} whose code is the
\* response's status, the pair (status, message) being (404, NOT_FOUND),
\* (405, METHOD_NOT_ALLOWED) or (500, UNHANDLED_REJECTION), and nothing else.
C8_ErrorEnvelopeMatchesStatus ==
  last.answered
  => /\ last.status # 200 => last.body.kind = "error"
     /\ last.body.kind = "error"
          => /\ DOMAIN last.body = {"kind", "code", "message"}
             /\ last.body.code = last.status
             /\ <<last.status, last.body.message>> \in
                  { <<404, "NOT_FOUND">>, <<405, "METHOD_NOT_ALLOWED">>,
                    <<500, "UNHANDLED_REJECTION">> }

C8_Witness ==
  /\ last.answered /\ last.status = 500
  /\ last.body.kind = "error" /\ last.body.code = 500

C10_ClockBackKeepsOrder ==
  \A j \in 1..Len(issued) :
    (\E i \in 1..(j - 1) : issued[j].ts < issued[i].ts)
    => \A k \in 1..(j - 1) : IdLess(issued[k].id, issued[j].id)

====
